---- MODULE Spec2Model ----
(***************************************************************************)
(* Letter ingestion pipeline of the Economic Letter Insights application:  *)
(* the listing parser and detail extractor of app/services/scraper.py, the *)
(* letters table of app/db, and the fetch-new / fetch-more handlers of     *)
(* app/main.py.                                                            *)
(*                                                                         *)
(* Text is modelled at token level.  A URL is a sequence of tokens         *)
(* ("http", "s://www.frbsf.org", "/", "economic-letter", ...), so that the *)
(* substring, prefix and suffix tests of the parser are computed on the    *)
(* tokens.  Titles and excerpts are strings.                               *)
(***************************************************************************)
EXTENDS Integers, Sequences, FiniteSets, TLC

VARIABLES
    store,      \* the letters table: sequence of rows, row id = position
    frame,      \* per handler task: position (pc) and the handler's locals
    hist,       \* per task: history of its current/last invocation
    response,   \* per task: HTTP response of its last finished invocation
    listing1,   \* remote site: markup of the first listing page
    settled,    \* history: a fetch-new finished with 200 and page 1 is as it was then
    settledSeen,\* history: as settled, and that fetch-new had retrieved page 1
    doc,        \* parser harness: the input handed to parse_letter_list
    parsed      \* parser harness: what parse_letter_list returned for doc

vars == <<store, frame, hist, response, listing1, settled, settledSeen, doc, parsed>>

-----------------------------------------------------------------------------
(* Bounds of the model *)

MaxLinks == 3        \* links per document handed to the parser harness
MaxSiteLinks == 2    \* links per listing page served by the remote site
MaxStart == 1        \* largest current_page a fetch-more request carries
MaxIngestLinks == 2  \* links on the first listing page of the ingestion runs

-----------------------------------------------------------------------------
(* Values *)

None == "None"                         \* Python's None
Procs == {"h1", "h2"}                  \* handler tasks on the event loop

Origin == <<"http", "s://www.frbsf.org">>
D4 == {"2024"}                         \* tokens matching \d{4}
D2 == {"03"}                           \* tokens matching \d{2}

HrefA    == <<"/", "economic-letter", "/", "2024", "/", "03", "/", "wages", "/">>
HrefAabs == Origin \o HrefA
HrefB    == <<"/", "economic-letter", "/", "housing">>
HrefPage == <<"/", "economic-letter", "/", "page", "/", "2", "/">>
HrefRoot == <<"/", "economic-letter", "/">>
HrefRootNoSlash == <<"/", "economic-letter">>
HrefOther == <<"/", "about", "/">>
HrefEmpty == <<>>

\* An <a href> element as the parser sees it: href, raw text, the text of the
\* first <p> of its nearest div/section/li ancestor (None when there is no such
\* ancestor or no <p>), and whether extracting its text raises.
Link(h, t, p, r) == [href |-> h, text |-> t, p |-> p, raises |-> r]

LinkA       == Link(HrefA, "Inflation and Wages", "Wage growth cools.", FALSE)
LinkAabs    == Link(HrefAabs, " Wages, Revisited ", None, FALSE)
LinkAshort  == Link(HrefA, "Wages", None, FALSE)
LinkAboiler == Link(HrefAabs, "Read the Economic Letter", "Wage growth cools.", FALSE)
LinkB       == Link(HrefB, "Housing Market Outlook", "", FALSE)
LinkBblank  == Link(HrefB, "  ", None, FALSE)
LinkBdeep   == Link(HrefB, "Housing Market Outlook", None, TRUE)
LinkPage    == Link(HrefPage, "Older economic letters", None, FALSE)
LinkRoot    == Link(HrefRoot, "Economic Letter", None, FALSE)
LinkRoot2   == Link(HrefRootNoSlash, "All Economic Letters", None, FALSE)
LinkOther   == Link(HrefOther, "About the Federal Reserve", "Intro", FALSE)
LinkEmpty   == Link(HrefEmpty, "Nothing to see here", None, FALSE)

ParseLinkSet == {LinkA, LinkAabs, LinkAshort, LinkAboiler, LinkB, LinkBblank,
                 LinkBdeep, LinkPage, LinkRoot, LinkRoot2, LinkOther, LinkEmpty}
SiteLinkSet == {LinkA, LinkAabs, LinkB}

SeqsUpTo(S, n) == UNION {[1..k -> S] : k \in 0..n}

\* A document handed to BeautifulSoup: the <a href> elements it holds, in
\* document order.  NotMarkup is an input BeautifulSoup cannot take (it raises).
Html(links) == [markup |-> TRUE, links |-> links]
NotMarkup == [markup |-> FALSE, links |-> <<>>]
ParseInputs == {Html(l) : l \in SeqsUpTo(ParseLinkSet, MaxLinks)} \cup {NotMarkup}

-----------------------------------------------------------------------------
(* Text helpers, computed on the strings the model uses *)

\* str.strip() / get_text(strip=True)
strip(s) ==
    CASE s = " Wages, Revisited " -> "Wages, Revisited"
      [] s = "  " -> ""
      [] OTHER -> s

\* str.lower()
lower(s) ==
    CASE s = "Read the Economic Letter" -> "read the economic letter"
      [] s = "Economic Letter" -> "economic letter"
      [] s = "Inflation and Wages" -> "inflation and wages"
      [] s = "Wages, Revisited" -> "wages, revisited"
      [] s = "Wages" -> "wages"
      [] s = "Housing Market Outlook" -> "housing market outlook"
      [] s = "Older economic letters" -> "older economic letters"
      [] s = "All Economic Letters" -> "all economic letters"
      [] s = "About the Federal Reserve" -> "about the federal reserve"
      [] s = "Nothing to see here" -> "nothing to see here"
      [] OTHER -> s

\* needle in url, for a token sequence needle
Contains(url, needle) ==
    \E i \in 1..(Len(url) - Len(needle) + 1) :
        SubSeq(url, i, i + Len(needle) - 1) = needle

startswith(url, prefix) ==
    Len(url) >= Len(prefix) /\ SubSeq(url, 1, Len(prefix)) = prefix

endswith(url, suffix) ==
    Len(url) >= Len(suffix)
    /\ SubSeq(url, Len(url) - Len(suffix) + 1, Len(url)) = suffix

\* re.search(r'/(\d{4})/(\d{2})/', url): the leftmost match, or None
DateMatches(url) ==
    {i \in 1..(Len(url) - 4) :
        /\ url[i] = "/" /\ url[i+1] \in D4 /\ url[i+2] = "/"
        /\ url[i+3] \in D2 /\ url[i+4] = "/"}

date_match(url) ==
    IF DateMatches(url) = {} THEN <<>>
    ELSE LET i == CHOOSE k \in DateMatches(url) : \A m \in DateMatches(url) : k <= m
         IN <<url[i+1], url[i+3]>>

-----------------------------------------------------------------------------
(* ScraperService.parse_letter_list *)

LetterData(title, url, publication_date, summary, content) ==
    [title |-> title, url |-> url, publication_date |-> publication_date,
     summary |-> summary, content |-> content]

\* Python truthiness of an Optional[str]
Truthy(s) == s # None /\ s # ""

\* The result of a call: the exception that escaped it (None if it returned)
\* and the value returned (for a raise: the state it left behind).
Returned(v) == [exc |-> None, ret |-> v]
Raised(e, v) == [exc |-> e, ret |-> v]

\* parse_link_body without the seen_urls test
parse_link_body_no_seen(acc, link) ==
    LET href == link.href IN
    IF href = <<>> \/ ~Contains(href, <<"economic-letter">>) THEN Returned(acc)
    ELSE
    LET url == IF ~startswith(href, <<"http">>) THEN Origin \o href ELSE href IN
    IF \/ Contains(url, <<"/", "page", "/">>)
       \/ endswith(url, <<"/", "economic-letter", "/">>)
       \/ endswith(url, <<"/", "economic-letter">>)
    THEN Returned(acc)
    ELSE
    LET seen == acc.seen_urls \cup {url} IN
    IF link.raises THEN Raised("RecursionError", [acc EXCEPT !.seen_urls = seen])
    ELSE
    LET title == strip(link.text) IN
    IF \/ title = ""
       \/ Len(title) < 10
       \/ lower(title) \in {"read the economic letter", "economic letter"}
    THEN Returned([acc EXCEPT !.seen_urls = seen])
    ELSE
    LET m == date_match(url)
        publication_date == IF m # <<>> THEN m[1] \o "-" \o m[2] \o "-01" ELSE ""
        summary == IF link.p # None THEN strip(link.p) ELSE None
        content == IF Truthy(summary) THEN summary ELSE title
    IN Returned([letters |-> Append(acc.letters,
                     LetterData(title, url, publication_date, summary, content)),
                 seen_urls |-> seen])

\* parse_link_body without the test of the title
parse_link_body_no_title_test(acc, link) ==
    LET href == link.href IN
    IF href = <<>> \/ ~Contains(href, <<"economic-letter">>) THEN Returned(acc)
    ELSE
    LET url == IF ~startswith(href, <<"http">>) THEN Origin \o href ELSE href IN
    IF \/ Contains(url, <<"/", "page", "/">>)
       \/ endswith(url, <<"/", "economic-letter", "/">>)
       \/ endswith(url, <<"/", "economic-letter">>)
    THEN Returned(acc)
    ELSE IF url \in acc.seen_urls THEN Returned(acc)
    ELSE
    LET seen == acc.seen_urls \cup {url} IN
    IF link.raises THEN Raised("RecursionError", [acc EXCEPT !.seen_urls = seen])
    ELSE
    LET title == strip(link.text)
        m == date_match(url)
        publication_date == IF m # <<>> THEN m[1] \o "-" \o m[2] \o "-01" ELSE ""
        summary == IF link.p # None THEN strip(link.p) ELSE None
        content == IF Truthy(summary) THEN summary ELSE title
    IN Returned([letters |-> Append(acc.letters,
                     LetterData(title, url, publication_date, summary, content)),
                 seen_urls |-> seen])

\* The body of the inner try, for one link, on the accumulator
\* [letters, seen_urls].
parse_link_body(acc, link) ==
    LET href == link.href IN
    IF href = <<>> \/ ~Contains(href, <<"economic-letter">>) THEN Returned(acc)
    ELSE
    LET url == IF ~startswith(href, <<"http">>) THEN Origin \o href ELSE href IN
    IF \/ Contains(url, <<"/", "page", "/">>)
       \/ endswith(url, <<"/", "economic-letter", "/">>)
       \/ endswith(url, <<"/", "economic-letter">>)
    THEN Returned(acc)
    ELSE IF url \in acc.seen_urls THEN Returned(acc)
    ELSE
    LET seen == acc.seen_urls \cup {url} IN
    IF link.raises THEN Raised("RecursionError", [acc EXCEPT !.seen_urls = seen])
    ELSE
    LET title == strip(link.text) IN
    IF \/ title = ""
       \/ Len(title) < 10
       \/ lower(title) \in {"read the economic letter", "economic letter"}
    THEN Returned([acc EXCEPT !.seen_urls = seen])
    ELSE
    LET m == date_match(url)
        publication_date == IF m # <<>> THEN m[1] \o "-" \o m[2] \o "-01" ELSE ""
        summary == IF link.p # None THEN strip(link.p) ELSE None
        content == IF Truthy(summary) THEN summary ELSE title
    IN Returned([letters |-> Append(acc.letters,
                     LetterData(title, url, publication_date, summary, content)),
                 seen_urls |-> seen])

\* One iteration of the for loop over all_links: `except Exception: continue`
\* swallows what the body raised and keeps what it had done before raising.
parse_link(acc, link) == parse_link_body(acc, link).ret

RECURSIVE parse_links(_, _, _)
parse_links(acc, all_links, i) ==
    IF i > Len(all_links) THEN acc
    ELSE parse_links(parse_link(acc, all_links[i]), all_links, i + 1)

\* The body of the outer try: BeautifulSoup(html), find_all, the loop
parse_document(html) ==
    IF ~html.markup THEN Raised("TypeError", [letters |-> <<>>, seen_urls |-> {}])
    ELSE Returned(parse_links([letters |-> <<>>, seen_urls |-> {}], html.links, 1))

\* The outer `except Exception` logs; `return letters` follows whether the try
\* block raised or not.
parse_letter_list(html) == Returned(parse_document(html).ret.letters)

\* The listing pages the remote site serves: every link on them is a letter of
\* its own (a page with further links parses to the same letters as one of these).
Listings ==
    {Html(l) : l \in {m \in SeqsUpTo(SiteLinkSet, MaxSiteLinks) :
                          Len(parse_letter_list(Html(m)).ret) = Len(m)}}

-----------------------------------------------------------------------------
(* ScraperService.fetch_letters_page, fetch_letter_content, parse_letter_content *)

\* What client.get followed by raise_for_status leaves: the body of a 2xx
\* response, or an httpx.HTTPError (timeout, connection error, non-2xx status).
Ok(body) == [ok |-> TRUE, body |-> body]
HTTPError == [ok |-> FALSE, body |-> <<>>]

\* A detail page: the text of its div.entry-content, article and main elements
\* (None for an element the page does not have).
DetailPages ==
    {[entry_content |-> "Full text", article |-> "Teaser", main |-> None],
     [entry_content |-> None, article |-> None, main |-> ""],
     [entry_content |-> None, article |-> None, main |-> None]}

parse_letter_content(html) ==
    LET content_elem ==
            IF html.entry_content # None THEN html.entry_content
            ELSE IF html.article # None THEN html.article
            ELSE html.main
    IN IF content_elem # None THEN content_elem ELSE ""

\* What the GET of a letter's page can bring back
DetailResponses == {Ok(d) : d \in DetailPages} \cup {HTTPError}

fetch_letter_content(resp) ==
    IF ~resp.ok THEN "" ELSE parse_letter_content(resp.body)

\* ListingResponses when the request for page 1 goes to some other page
ListingResponses_any_page(page) ==
    {Ok(h) : h \in Listings} \cup {HTTPError}

\* What the GET of a listing page can bring back: page 1 is the listing root,
\* any later page may hold any listing.
ListingResponses(page) ==
    {Ok(h) : h \in (IF page = 1 THEN {listing1} ELSE Listings)} \cup {HTTPError}

fetch_letters_page(resp) ==
    IF ~resp.ok THEN <<>> ELSE parse_letter_list(resp.body).ret

-----------------------------------------------------------------------------
(* DatabaseRepository on the letters table (url TEXT UNIQUE NOT NULL) *)

\* The unique index SQLite keeps on letters.url: the urls of the rows.  The
\* SELECT of letter_exists and the constraint check of INSERT both look in it.
url_index_unmaintained(st) == {}

url_index(st) == {st[i].url : i \in 1..Len(st)}

letter_exists(st, url) == url \in url_index(st)

\* insert_letter as INSERT OR REPLACE: a row with the same url is overwritten
insert_letter_or_replace(st, letter) ==
    IF letter.url \in url_index(st)
    THEN Returned([i \in 1..Len(st) |->
                     IF st[i].url = letter.url
                     THEN [id |-> st[i].id,
                           title |-> letter.title,
                           url |-> letter.url,
                           publication_date |-> letter.publication_date,
                           summary |-> letter.summary,
                           content |-> letter.content]
                     ELSE st[i]])
    ELSE Returned(Append(st, [id |-> Len(st) + 1,
                              title |-> letter.title,
                              url |-> letter.url,
                              publication_date |-> letter.publication_date,
                              summary |-> letter.summary,
                              content |-> letter.content]))

\* insert_letter on a table without the UNIQUE constraint
insert_letter_no_unique(st, letter) ==
    Returned(Append(st, [id |-> Len(st) + 1,
                         title |-> letter.title,
                         url |-> letter.url,
                         publication_date |-> letter.publication_date,
                         summary |-> letter.summary,
                         content |-> letter.content]))

\* insert_letter without conn.commit(): the row is lost when the connection closes
insert_letter_no_commit(st, letter) ==
    IF letter.url \in url_index(st)
    THEN Raised("IntegrityError", st)
    ELSE Returned(st)

insert_letter(st, letter) ==
    IF letter.url \in url_index(st)
    THEN Raised("IntegrityError", st)
    ELSE Returned(Append(st, [id |-> Len(st) + 1,
                              title |-> letter.title,
                              url |-> letter.url,
                              publication_date |-> letter.publication_date,
                              summary |-> letter.summary,
                              content |-> letter.content]))

\* The database file cannot be opened or is locked: any call may raise this.
OperationalError == "OperationalError"

-----------------------------------------------------------------------------
(* Handler state *)

max_attempts_six == 5 + 1

max_attempts == 5

IdleFrame ==
    [pc |-> "idle", letters |-> <<>>, idx |-> 0, page_ok |-> FALSE, new_count |-> 0,
     current_page |-> 0, attempt |-> 0, added_count |-> 0, total_added |-> 0]

NoResponse == [status |-> 0]
FetchResponse(n, msg) == [status |-> 200, new_count |-> n, message |-> msg]
HTTPException(e) == [status |-> 500, detail |-> e]

\* History of an invocation: the endpoint, the listing pages requested so far,
\* the number of candidates on the page answered last (-1: none answered yet),
\* what the detail fetch answered last returned (None: none answered yet),
\* whether settledSeen held when the request came in, the number of rows the
\* table held when the request came in, and whether the listing fetch answered
\* last got a 2xx response.
NoHist ==
    [op |-> "none", pages |-> <<>>, cand |-> -1, detail |-> None, rerun |-> FALSE,
     base |-> 0, page_ok |-> FALSE]

Urls(ls) == [i \in 1..Len(ls) |-> ls[i].url]

\* NextMissing without the call of letter_exists: every letter is taken as new
NextMissing_unchecked(ls, i, st) == i

\* The first position >= i of a letter that is not in the store, Len + 1 if none:
\* where the for loop over letters next enters the `if not letter_exists` branch.
RECURSIVE NextMissing(_, _, _)
NextMissing(ls, i, st) ==
    IF i > Len(ls) THEN i
    ELSE IF ~letter_exists(st, ls[i].url) THEN i
    ELSE NextMissing(ls, i + 1, st)

\* WithContent without the `if full_content` test
WithContent_unconditional(letter, full_content) ==
    [letter EXCEPT !.content = full_content]

\* `if full_content: letter.content = full_content`, on the letter at hand
WithContent(letter, full_content) ==
    IF full_content # "" THEN [letter EXCEPT !.content = full_content] ELSE letter

TypeOK ==
    /\ \A p \in Procs : frame[p].pc \in {"idle", "new_page", "new_content",
                                         "more_page", "more_content"}
    /\ settled \in BOOLEAN /\ settledSeen \in BOOLEAN

Init ==
    /\ store = <<>>
    /\ frame = [p \in Procs |-> IdleFrame]
    /\ hist = [p \in Procs |-> NoHist]
    /\ response = [p \in Procs |-> NoResponse]
    /\ listing1 \in Listings
    /\ settled = FALSE
    /\ settledSeen = FALSE
    /\ doc = Html(<<>>)
    /\ parsed = Raised("NotCalled", <<>>)

\* The publisher edits the first listing page.  An edit while a request is in
\* flight is the same edit made before its listing fetch or after its return
\* (fetch-new reads page 1 once, fetch-more never reads it).
Publish ==
    /\ \A p \in Procs : frame[p].pc = "idle"
    /\ \E html \in Listings : html # listing1 /\ listing1' = html
    /\ settled' = FALSE
    /\ settledSeen' = FALSE
    /\ UNCHANGED <<store, frame, hist, response, doc, parsed>>

\* the except branch of a handler: HTTP 500 with the exception as detail
Abort(p, e) ==
    /\ frame' = [frame EXCEPT ![p] = IdleFrame]
    /\ response' = [response EXCEPT ![p] = HTTPException(e)]

-----------------------------------------------------------------------------
(* POST /api/letters/fetch-new: fetch_new_letters *)

FetchNewMessage(new_count) ==
    IF new_count > 0 THEN "Added " \o ToString(new_count) \o " new letter(s)"
    ELSE "No new letters found"

\* The for loop over letters, from position f.idx of frame f and with the table
\* as st, up to the next await (the detail fetch of a letter that is not stored)
\* or to the return.
FetchNewLoop(p, f, st) ==
    LET j == NextMissing(f.letters, f.idx, st) IN
    /\ store' = st
    /\ IF j <= Len(f.letters)
       THEN /\ frame' = [frame EXCEPT ![p] = [f EXCEPT !.idx = j, !.pc = "new_content"]]
            /\ UNCHANGED <<response, settled, settledSeen>>
       ELSE /\ frame' = [frame EXCEPT ![p] = IdleFrame]
            /\ response' = [response EXCEPT ![p] =
                              FetchResponse(f.new_count, FetchNewMessage(f.new_count))]
            /\ LET same == Urls(f.letters) = Urls(parse_letter_list(listing1).ret) IN
               /\ settled' = (f.page_ok => same)
               /\ settledSeen' = (f.page_ok /\ same)

FetchNewStart(p) ==
    /\ frame[p].pc = "idle"
    /\ frame' = [frame EXCEPT ![p] = [IdleFrame EXCEPT !.pc = "new_page"]]
    /\ hist' = [hist EXCEPT ![p] = [NoHist EXCEPT !.op = "fetch-new", !.pages = <<1>>,
                                                  !.rerun = settledSeen,
                                                  !.base = Len(store)]]
    /\ response' = [response EXCEPT ![p] = NoResponse]
    /\ UNCHANGED <<store, listing1, settled, settledSeen, doc, parsed>>

\* FetchNewPage when fetch_letters_page lets the transport failure escape
FetchNewPage_http_error_raises(p) ==
    /\ frame[p].pc = "new_page"
    /\ \E resp \in ListingResponses(1) :
          LET letters == fetch_letters_page(resp) IN
          /\ hist' = [hist EXCEPT ![p].cand = Len(letters), ![p].page_ok = resp.ok]
          /\ IF ~resp.ok
             THEN Abort(p, "HTTPError") /\ UNCHANGED <<store, settled, settledSeen>>
             ELSE FetchNewLoop(p, [frame[p] EXCEPT !.letters = letters,
                                                   !.page_ok = resp.ok,
                                                   !.idx = 1], store)
    /\ UNCHANGED <<listing1, doc, parsed>>

\* fetch_letters_page(page=1) returns; the loop runs to its first detail fetch
FetchNewPage(p) ==
    /\ frame[p].pc = "new_page"
    /\ \E resp \in ListingResponses(1) :
          LET letters == fetch_letters_page(resp) IN
          /\ hist' = [hist EXCEPT ![p].cand = Len(letters), ![p].page_ok = resp.ok]
          /\ FetchNewLoop(p, [frame[p] EXCEPT !.letters = letters,
                                              !.page_ok = resp.ok,
                                              !.idx = 1], store)
    /\ UNCHANGED <<listing1, doc, parsed>>

\* FetchNewContent without `new_count += 1`
FetchNewContent_no_count(p) ==
    /\ frame[p].pc = "new_content"
    /\ \E resp \in DetailResponses :
          LET f == frame[p]
              full_content == fetch_letter_content(resp)
              letter == WithContent(f.letters[f.idx], full_content)
              r == insert_letter(store, letter)
          IN /\ hist' = [hist EXCEPT ![p].detail = full_content]
             /\ IF r.exc # None
                THEN Abort(p, r.exc) /\ UNCHANGED <<store, settled, settledSeen>>
                ELSE FetchNewLoop(p, [f EXCEPT !.letters[f.idx] = letter,
                                               !.idx = f.idx + 1], r.ret)
    /\ UNCHANGED <<listing1, doc, parsed>>

\* fetch_letter_content returns; the letter is inserted and the loop goes on
FetchNewContent(p) ==
    /\ frame[p].pc = "new_content"
    /\ \E resp \in DetailResponses :
          LET f == frame[p]
              full_content == fetch_letter_content(resp)
              letter == WithContent(f.letters[f.idx], full_content)
              r == insert_letter(store, letter)
          IN /\ hist' = [hist EXCEPT ![p].detail = full_content]
             /\ IF r.exc # None
                THEN Abort(p, r.exc) /\ UNCHANGED <<store, settled, settledSeen>>
                ELSE FetchNewLoop(p, [f EXCEPT !.letters[f.idx] = letter,
                                               !.new_count = f.new_count + 1,
                                               !.idx = f.idx + 1], r.ret)
    /\ UNCHANGED <<listing1, doc, parsed>>

\* A database call of the handler raises OperationalError: letter_exists for one
\* of the letters of the page ...
FetchNewExistsError(p) ==
    /\ frame[p].pc = "new_page"
    /\ \E n \in {Len(fetch_letters_page(resp)) : resp \in ListingResponses(1)} \ {0} :
          hist' = [hist EXCEPT ![p].cand = n, ![p].page_ok = TRUE]
    /\ Abort(p, OperationalError)
    /\ UNCHANGED <<store, listing1, settled, settledSeen, doc, parsed>>

\* ... or insert_letter, which leaves the table as it was ...
FetchNewInsertError(p) ==
    /\ frame[p].pc = "new_content"
    /\ \E resp \in DetailResponses :
          hist' = [hist EXCEPT ![p].detail = fetch_letter_content(resp)]
    /\ Abort(p, OperationalError)
    /\ UNCHANGED <<store, listing1, settled, settledSeen, doc, parsed>>

\* ... or letter_exists for a later letter, after this one was inserted.
FetchNewInsertThenExistsError(p) ==
    /\ frame[p].pc = "new_content"
    /\ frame[p].idx < Len(frame[p].letters)
    /\ \E resp \in DetailResponses :
          LET f == frame[p]
              full_content == fetch_letter_content(resp)
              r == insert_letter(store, WithContent(f.letters[f.idx], full_content))
          IN /\ r.exc = None
             /\ store' = r.ret
             /\ hist' = [hist EXCEPT ![p].detail = full_content]
    /\ Abort(p, OperationalError)
    /\ UNCHANGED <<listing1, settled, settledSeen, doc, parsed>>

fetch_new_letters(p) ==
    \/ FetchNewStart(p)
    \/ FetchNewPage(p)
    \/ FetchNewContent(p)
    \/ FetchNewExistsError(p)
    \/ FetchNewInsertError(p)
    \/ FetchNewInsertThenExistsError(p)

-----------------------------------------------------------------------------
(* POST /api/letters/fetch-more: fetch_more_letters *)

\* next_page that asks for the page after current_page on every attempt
next_page_same(f) == f.current_page + 1

next_page(f) == f.current_page + f.attempt + 1

\* the code after the for loop over attempts
AfterLoopMessage(total_added) ==
    IF total_added = 0
    THEN "Checked " \o ToString(max_attempts) \o " pages but all letters already exist."
         \o " You may have reached the end of available letters."
    ELSE "Added " \o ToString(total_added) \o " new letter(s)"

FetchMoreReturn(p, h, n, msg) ==
    /\ frame' = [frame EXCEPT ![p] = IdleFrame]
    /\ response' = [response EXCEPT ![p] = FetchResponse(n, msg)]
    /\ hist' = [hist EXCEPT ![p] = h]

\* FetchMoreLoop without `if added_count > 0: return`: the search goes on to
\* the next page after a page that added letters
FetchMoreLoop_no_early_return(p, f, st, h) ==
    LET j == NextMissing(f.letters, f.idx, st)
        total_added == f.total_added + f.added_count
    IN
    /\ store' = st
    /\ IF j <= Len(f.letters)
       THEN /\ frame' = [frame EXCEPT ![p] = [f EXCEPT !.idx = j, !.pc = "more_content"]]
            /\ hist' = [hist EXCEPT ![p] = h]
            /\ UNCHANGED response
       ELSE IF f.attempt + 1 < max_attempts
       THEN LET g == [f EXCEPT !.attempt = f.attempt + 1, !.total_added = total_added,
                               !.pc = "more_page"]
            IN /\ frame' = [frame EXCEPT ![p] = g]
               /\ hist' = [hist EXCEPT ![p] = [h EXCEPT !.pages = Append(@, next_page(g))]]
               /\ UNCHANGED response
       ELSE FetchMoreReturn(p, h, total_added, AfterLoopMessage(total_added))

\* FetchMoreLoop as a loop that asks for the same page again, without counting
\* the attempt, after a page that added nothing
FetchMoreLoop_retry_same_page(p, f, st, h) ==
    LET j == NextMissing(f.letters, f.idx, st)
        total_added == f.total_added + f.added_count
    IN
    /\ store' = st
    /\ IF j <= Len(f.letters)
       THEN /\ frame' = [frame EXCEPT ![p] = [f EXCEPT !.idx = j, !.pc = "more_content"]]
            /\ hist' = [hist EXCEPT ![p] = h]
            /\ UNCHANGED response
       ELSE IF f.added_count > 0
       THEN FetchMoreReturn(p, h, total_added,
                "Added " \o ToString(total_added) \o " new letter(s) from page "
                \o ToString(next_page(f)))
       ELSE /\ frame' = [frame EXCEPT ![p] = [f EXCEPT !.pc = "more_page"]]
            /\ hist' = [hist EXCEPT ![p] = h]
            /\ UNCHANGED response

\* FetchMoreLoop with a `break` on a page that added nothing
FetchMoreLoop_break_on_known(p, f, st, h) ==
    LET j == NextMissing(f.letters, f.idx, st)
        total_added == f.total_added + f.added_count
    IN
    /\ store' = st
    /\ IF j <= Len(f.letters)
       THEN /\ frame' = [frame EXCEPT ![p] = [f EXCEPT !.idx = j, !.pc = "more_content"]]
            /\ hist' = [hist EXCEPT ![p] = h]
            /\ UNCHANGED response
       ELSE IF f.added_count > 0
       THEN FetchMoreReturn(p, h, total_added,
                "Added " \o ToString(total_added) \o " new letter(s) from page "
                \o ToString(next_page(f)))
       ELSE FetchMoreReturn(p, h, total_added, AfterLoopMessage(total_added))

\* The for loop over letters of one page, from position f.idx of frame f, with
\* the table as st and the history as h, up to the next await or, at the end of
\* the page, to the return or the request of the next page.
FetchMoreLoop(p, f, st, h) ==
    LET j == NextMissing(f.letters, f.idx, st)
        total_added == f.total_added + f.added_count
    IN
    /\ store' = st
    /\ IF j <= Len(f.letters)
       THEN /\ frame' = [frame EXCEPT ![p] = [f EXCEPT !.idx = j, !.pc = "more_content"]]
            /\ hist' = [hist EXCEPT ![p] = h]
            /\ UNCHANGED response
       ELSE IF f.added_count > 0
       THEN FetchMoreReturn(p, h, total_added,
                "Added " \o ToString(total_added) \o " new letter(s) from page "
                \o ToString(next_page(f)))
       ELSE IF f.attempt + 1 < max_attempts
       THEN LET g == [f EXCEPT !.attempt = f.attempt + 1, !.total_added = total_added,
                               !.pc = "more_page"]
            IN /\ frame' = [frame EXCEPT ![p] = g]
               /\ hist' = [hist EXCEPT ![p] = [h EXCEPT !.pages = Append(@, next_page(g))]]
               /\ UNCHANGED response
       ELSE FetchMoreReturn(p, h, total_added, AfterLoopMessage(total_added))

\* FetchMoreRequest: current_page is an integer >= 1
FetchMoreStart(p) ==
    /\ frame[p].pc = "idle"
    /\ \E current_page \in 1..MaxStart :
          LET f == [IdleFrame EXCEPT !.pc = "more_page", !.current_page = current_page]
          IN /\ frame' = [frame EXCEPT ![p] = f]
             /\ hist' = [hist EXCEPT ![p] =
                           [NoHist EXCEPT !.op = "fetch-more", !.pages = <<next_page(f)>>,
                                         !.base = Len(store)]]
    /\ response' = [response EXCEPT ![p] = NoResponse]
    /\ UNCHANGED <<store, listing1, settled, settledSeen, doc, parsed>>

\* FetchMorePage without `if not letters: break`
FetchMorePage_no_break(p) ==
    /\ frame[p].pc = "more_page"
    /\ \E resp \in ListingResponses(next_page(frame[p])) :
          LET f == [frame[p] EXCEPT !.letters = fetch_letters_page(resp),
                                    !.page_ok = resp.ok,
                                    !.added_count = 0,
                                    !.idx = 1]
              h == [hist[p] EXCEPT !.cand = Len(f.letters), !.page_ok = resp.ok]
          IN FetchMoreLoop(p, f, store, h)
    /\ UNCHANGED <<listing1, settled, settledSeen, doc, parsed>>

\* fetch_letters_page(page=next_page) returns: break on an empty page, else the
\* loop over its letters runs to its first detail fetch
FetchMorePage(p) ==
    /\ frame[p].pc = "more_page"
    /\ \E resp \in ListingResponses(next_page(frame[p])) :
          LET f == [frame[p] EXCEPT !.letters = fetch_letters_page(resp),
                                    !.page_ok = resp.ok,
                                    !.added_count = 0,
                                    !.idx = 1]
              h == [hist[p] EXCEPT !.cand = Len(f.letters), !.page_ok = resp.ok]
          IN IF f.letters = <<>>
             THEN /\ FetchMoreReturn(p, h, f.total_added, AfterLoopMessage(f.total_added))
                  /\ UNCHANGED store
             ELSE FetchMoreLoop(p, f, store, h)
    /\ UNCHANGED <<listing1, settled, settledSeen, doc, parsed>>

\* fetch_letter_content returns; the letter is inserted and the loop goes on
FetchMoreContent(p) ==
    /\ frame[p].pc = "more_content"
    /\ \E resp \in DetailResponses :
          LET f == frame[p]
              full_content == fetch_letter_content(resp)
              letter == WithContent(f.letters[f.idx], full_content)
              r == insert_letter(store, letter)
              h == [hist[p] EXCEPT !.detail = full_content]
          IN IF r.exc # None
             THEN /\ Abort(p, r.exc)
                  /\ hist' = [hist EXCEPT ![p] = h]
                  /\ UNCHANGED store
             ELSE FetchMoreLoop(p, [f EXCEPT !.letters[f.idx] = letter,
                                             !.added_count = f.added_count + 1,
                                             !.idx = f.idx + 1], r.ret, h)
    /\ UNCHANGED <<listing1, settled, settledSeen, doc, parsed>>

\* A database call of the handler raises OperationalError: letter_exists for one
\* of the letters of the page ...
FetchMoreExistsError(p) ==
    /\ frame[p].pc = "more_page"
    /\ \E n \in {Len(fetch_letters_page(resp)) :
                    resp \in ListingResponses(next_page(frame[p]))} \ {0} :
          hist' = [hist EXCEPT ![p].cand = n, ![p].page_ok = TRUE]
    /\ Abort(p, OperationalError)
    /\ UNCHANGED <<store, listing1, settled, settledSeen, doc, parsed>>

\* ... or insert_letter, which leaves the table as it was ...
FetchMoreInsertError(p) ==
    /\ frame[p].pc = "more_content"
    /\ \E resp \in DetailResponses :
          hist' = [hist EXCEPT ![p].detail = fetch_letter_content(resp)]
    /\ Abort(p, OperationalError)
    /\ UNCHANGED <<store, listing1, settled, settledSeen, doc, parsed>>

\* ... or letter_exists for a later letter, after this one was inserted.
FetchMoreInsertThenExistsError(p) ==
    /\ frame[p].pc = "more_content"
    /\ frame[p].idx < Len(frame[p].letters)
    /\ \E resp \in DetailResponses :
          LET f == frame[p]
              full_content == fetch_letter_content(resp)
              r == insert_letter(store, WithContent(f.letters[f.idx], full_content))
          IN /\ r.exc = None
             /\ store' = r.ret
             /\ hist' = [hist EXCEPT ![p].detail = full_content]
    /\ Abort(p, OperationalError)
    /\ UNCHANGED <<listing1, settled, settledSeen, doc, parsed>>

fetch_more_letters(p) ==
    \/ FetchMoreStart(p)
    \/ FetchMorePage(p)
    \/ FetchMoreContent(p)
    \/ FetchMoreExistsError(p)
    \/ FetchMoreInsertError(p)
    \/ FetchMoreInsertThenExistsError(p)

-----------------------------------------------------------------------------
(* Specifications *)

\* Requests are served one at a time: a single handler task.
Next ==
    \/ fetch_new_letters("h1")
    \/ fetch_more_letters("h1")
    \/ Publish

Spec == Init /\ [][Next]_vars

\* Two requests in flight on the event loop, one per task, interleaved at their
\* awaits.
NextConcurrent ==
    \E p \in Procs :
        \/ hist[p].op = "none" /\ FetchNewStart(p)
        \/ hist[p].op = "none" /\ FetchMoreStart(p)
        \/ FetchNewPage(p)
        \/ FetchNewContent(p)
        \/ FetchNewExistsError(p)
        \/ FetchNewInsertError(p)
        \/ FetchNewInsertThenExistsError(p)
        \/ FetchMorePage(p)
        \/ FetchMoreContent(p)
        \/ FetchMoreExistsError(p)
        \/ FetchMoreInsertError(p)
        \/ FetchMoreInsertThenExistsError(p)

SpecConcurrent == Init /\ [][NextConcurrent]_vars

\* The call a handler task awaits returns or fails: the handler's next step,
\* whichever it is.  The HTTP client has a timeout and SQLite returns or
\* raises, so a waiting handler is resumed.
Resume(p) ==
    \/ FetchNewPage(p)
    \/ FetchNewContent(p)
    \/ FetchNewExistsError(p)
    \/ FetchNewInsertError(p)
    \/ FetchNewInsertThenExistsError(p)
    \/ FetchMorePage(p)
    \/ FetchMoreContent(p)
    \/ FetchMoreExistsError(p)
    \/ FetchMoreInsertError(p)
    \/ FetchMoreInsertThenExistsError(p)

\* Requests served one at a time, every awaited call eventually returning.
SpecLive == Init /\ [][Next]_vars /\ WF_vars(Resume("h1"))

\* The parser on its own, on every bounded document.
InitParse ==
    /\ store = <<>>
    /\ frame = [p \in Procs |-> IdleFrame]
    /\ hist = [p \in Procs |-> NoHist]
    /\ response = [p \in Procs |-> NoResponse]
    /\ listing1 = Html(<<>>)
    /\ settled = FALSE
    /\ settledSeen = FALSE
    /\ doc \in ParseInputs
    /\ parsed = Raised("NotCalled", <<>>)

CallParse ==
    /\ parsed.exc = "NotCalled"
    /\ parsed' = parse_letter_list(doc)
    /\ UNCHANGED <<store, frame, hist, response, listing1, settled, settledSeen, doc>>

SpecParse == InitParse /\ [][CallParse]_vars

\* Fetch-new requests, one at a time, against a first listing page that may hold
\* any links (rejected ones included) or may not be markup at all.
IngestInputs ==
    {Html(l) : l \in SeqsUpTo(ParseLinkSet, MaxIngestLinks)} \cup {NotMarkup}

InitIngest ==
    /\ store = <<>>
    /\ frame = [p \in Procs |-> IdleFrame]
    /\ hist = [p \in Procs |-> NoHist]
    /\ response = [p \in Procs |-> NoResponse]
    /\ listing1 \in IngestInputs
    /\ settled = FALSE
    /\ settledSeen = FALSE
    /\ doc = Html(<<>>)
    /\ parsed = Raised("NotCalled", <<>>)

NextIngest == fetch_new_letters("h1")

SpecIngest == InitIngest /\ [][NextIngest]_vars

-----------------------------------------------------------------------------
(* Properties *)

Tasks == Procs
Succeeded(p) == response[p].status = 200
Failed(p) == response[p].status = 500

\* C1: with requests served one at a time, the store never holds two letters
\* with the same url.
C1_NoDuplicateLocators ==
    \A i, j \in 1..Len(store) : store[i].url = store[j].url => i = j

\* C1 witness: a fetch-more page lists a stored letter ahead of a new one, and
\* the new one is being fetched while the store already holds letters.
C1_Witness ==
    /\ frame["h1"].pc = "more_content"
    /\ frame["h1"].idx = 2
    /\ letter_exists(store, frame["h1"].letters[1].url)
    /\ Len(store) >= 1

\* C2: one fetch-more invocation requests at most 5 listing pages.
C2_AtMostFivePages ==
    \A p \in Tasks : hist[p].op = "fetch-more" => Len(hist[p].pages) <= 5

\* C2 witness: a fetch-more invocation that requested 5 pages and returned.
C2_Witness ==
    /\ hist["h1"].op = "fetch-more"
    /\ Len(hist["h1"].pages) = 5
    /\ Succeeded("h1")


\* C3: once a page of a fetch-more invocation has yielded a newly persisted
\* letter, the invocation requests no further listing page, and when the page is
\* done it returns the letters added so far.
C3_StopAtFirstNewLetter ==
    [][\A p \in Tasks :
          (/\ frame[p].pc = "more_content"
           /\ (frame[p].added_count > 0 \/ store' # store))
          => /\ hist'[p].pages = hist[p].pages
             /\ frame'[p].pc \in {"more_content", "idle"}
             /\ (response'[p].status = 200 =>
                     /\ store' # store
                     /\ response'[p].new_count
                          = frame[p].total_added + frame[p].added_count + 1)]_vars

\* C3 witness: starting at page 1, pages 2 and 3 held only stored letters, page
\* 4 held one new letter: pages 2, 3, 4 were requested and new_count is 1.
C3_Witness ==
    /\ hist["h1"].pages = <<2, 3, 4>>
    /\ response["h1"] = FetchResponse(1, "Added 1 new letter(s) from page 4")

\* C4: when a fetch-more page has candidates that are all stored already and
\* fewer than 5 pages have been requested, the next page number is requested.
C4_KnownPageContinues ==
    [][\A p \in Tasks :
          (/\ frame[p].pc = "more_page"
           /\ frame'[p] # frame[p]
           /\ hist'[p].cand > 0
           /\ frame'[p].pc # "more_content"
           /\ response'[p].status # 500
           /\ Len(hist[p].pages) < 5)
          => /\ frame'[p].pc = "more_page"
             /\ hist'[p].pages
                  = Append(hist[p].pages, hist[p].pages[Len(hist[p].pages)] + 1)]_vars

\* C4 witness: the second page is being requested after a first page whose
\* candidates were all stored.
C4_Witness ==
    /\ frame["h1"].pc = "more_page"
    /\ hist["h1"].pages = <<2, 3>>
    /\ hist["h1"].cand > 0
    /\ \A i \in 1..Len(frame["h1"].letters) :
          letter_exists(store, frame["h1"].letters[i].url)

\* C5: the first fetch-more page with zero candidates ends the invocation at
\* once: no further page is requested and the total accumulated so far is
\* returned.
C5_EmptyPageStops ==
    [][\A p \in Tasks :
          (/\ frame[p].pc = "more_page"
           /\ frame'[p] # frame[p]
           /\ hist'[p].cand = 0)
          => /\ frame'[p].pc = "idle"
             /\ hist'[p].pages = hist[p].pages
             /\ response'[p].status = 200
             /\ response'[p].new_count = frame[p].total_added]_vars

\* C5 witness: the first page held stored letters only, the second page held no
\* candidate, and the invocation returned zero after two pages.
C5_Witness ==
    /\ hist["h1"].op = "fetch-more"
    /\ hist["h1"].pages = <<2, 3>>
    /\ hist["h1"].cand = 0
    /\ Succeeded("h1")
    /\ response["h1"].new_count = 0

\* C6 as stated: after a fetch-new that returned 200, with page 1 unchanged, a
\* further fetch-new leaves the store as it is and returns new_count 0.
C6_IdempotentAfterAnySuccess ==
    [][\A p \in Tasks :
          (frame[p].pc \in {"new_page", "new_content"} /\ settled)
          => /\ store' = store
             /\ (response'[p].status = 200 => response'[p].new_count = 0)]_vars

\* C6 amended: after a fetch-new that retrieved page 1 and returned 200, with
\* page 1 unchanged, a further fetch-new leaves the store as it is and returns
\* new_count 0.
C6_IdempotentAfterRetrieval ==
    [][\A p \in Tasks :
          (frame[p].pc \in {"new_page", "new_content"} /\ settledSeen)
          => /\ store' = store
             /\ (response'[p].status = 200 => response'[p].new_count = 0)]_vars

\* C6 witness: a fetch-new that came in after such a fetch-new has returned 0
\* for a page 1 whose candidates are all in the store.
C6_Witness ==
    /\ hist["h1"].op = "fetch-new"
    /\ hist["h1"].rerun
    /\ hist["h1"].cand > 0
    /\ Succeeded("h1")
    /\ response["h1"].new_count = 0
    /\ store # <<>>

\* Letters counted so far by the invocation of frame f
Counted(f) == f.new_count + f.total_added + f.added_count

C8_DuplicateInsertTolerated ==
    \A p \in Tasks : ~(Failed(p) /\ response[p].detail = "IntegrityError")

\* C9: with two invocations interleaved at their awaits, every successful
\* insert is of a url no row holds yet, and the store never holds two letters
\* with the same url.
C9_RaceInsertsOnce ==
    [][/\ \A i, j \in 1..Len(store') : store'[i].url = store'[j].url => i = j
       /\ store' # store
            => /\ Len(store') = Len(store) + 1
               /\ SubSeq(store', 1, Len(store)) = store
               /\ \A i \in 1..Len(store) : store[i].url # store'[Len(store')].url]_vars

\* C9 witness: both tasks found the same url missing, one inserted it and the
\* insert of the other was refused.
C9_Witness ==
    /\ \E p \in Tasks : Failed(p) /\ response[p].detail = "IntegrityError"
    /\ \E p \in Tasks : Succeeded(p) /\ response[p].new_count >= 1

\* C10: parse_letter_list returns (it never raises) and no two letters it
\* returns have the same url.
C10_ParseReturnsUniqueLocators ==
    parsed.exc # "NotCalled"
    => /\ parsed.exc = None
       /\ \A i, j \in 1..Len(parsed.ret) :
             parsed.ret[i].url = parsed.ret[j].url => i = j

\* C10 witness: a document with two valid links to the same letter (one relative,
\* one absolute) and a link whose text cannot be extracted parsed to one letter.
C10_Witness ==
    /\ doc = Html(<<LinkA, LinkAabs, LinkBdeep>>)
    /\ parsed.exc = None
    /\ Len(parsed.ret) = 1

\* A title as the listing parser accepts it: at least 10 characters once
\* trimmed and, in lower case, none of the boilerplate phrases.
ValidTitle(t) ==
    /\ Len(strip(t)) >= 10
    /\ lower(strip(t)) \notin {"read the economic letter", "economic letter"}

\* C11: every candidate the listing parser hands to the fetch-new handler, and
\* every letter in the store, has a title of at least 10 characters after
\* trimming that is not a boilerplate phrase (compared case-insensitively).
C11_TitlesValid ==
    /\ \A p \in Tasks : \A i \in 1..Len(frame[p].letters) :
          ValidTitle(frame[p].letters[i].title)
    /\ \A i \in 1..Len(store) : ValidTitle(store[i].title)

\* C11 witness: the first listing page holds a link to a letter whose title is
\* rejected and a link with a valid title; the handler returned having stored
\* one letter.
C11_Witness ==
    /\ listing1.markup
    /\ Len(listing1.links) = 2
    /\ ~ValidTitle(listing1.links[1].text)
    /\ Contains(listing1.links[1].href, <<"2024">>)
    /\ ValidTitle(listing1.links[2].text)
    /\ Succeeded("h1")
    /\ response["h1"].new_count = 1
    /\ Len(store) = 1

\* The urls of the candidates the first listing page holds
Page1Urls == {l.url : l \in {parse_letter_list(listing1).ret[i] :
                                 i \in 1..Len(parse_letter_list(listing1).ret)}}

\* C12: a fetch-new invocation requests listing page 1, once, and no other
\* page; every letter it inserts is a candidate of page 1, and the new_count it
\* returns is the number of those letters.
C12_FetchNewReadsPageOneOnly ==
    [][\A p \in Tasks :
          /\ hist'[p].op = "fetch-new" => hist'[p].pages = <<1>>
          /\ frame[p].pc \in {"new_page", "new_content"}
               => /\ \A i \in (Len(store) + 1)..Len(store') : store'[i].url \in Page1Urls
                  /\ response'[p].status = 200
                       => /\ response'[p].new_count = Len(store') - hist[p].base
                          /\ \A i \in (hist[p].base + 1)..Len(store') :
                                store'[i].url \in Page1Urls]_vars

\* C12 witness: a fetch-new invocation that requested page 1 only and returned
\* having inserted the two candidates of page 1 into a store that held none.
C12_Witness ==
    /\ hist["h1"].op = "fetch-new"
    /\ hist["h1"].pages = <<1>>
    /\ hist["h1"].cand = 2
    /\ Succeeded("h1")
    /\ response["h1"].new_count = 2
    /\ Len(store) = 2

\* C13: a fetch-more invocation with starting page s requests pages s+1, s+2,
\* ... in this order, and handles the candidates of a page one at a time in
\* the order the parser returned them: the candidate whose detail is fetched
\* next is the first one not in the store, the row inserted is that candidate,
\* and every candidate ahead of it has been dealt with (it is in the store).
C13_PagesAndCandidatesInOrder ==
    [][\A p \in Tasks :
          /\ (frame[p].pc = "idle" /\ frame'[p].pc = "more_page")
               => hist'[p].pages = <<frame'[p].current_page + 1>>
          /\ hist'[p].op = "fetch-more"
               => \A k \in 1..Len(hist'[p].pages) :
                     hist'[p].pages[k] = hist'[p].pages[1] + k - 1
          /\ (frame[p].pc = "more_content" /\ store' # store)
               => /\ Len(store') = Len(store) + 1
                  /\ SubSeq(store', 1, Len(store)) = store
                  /\ store'[Len(store')].url = frame[p].letters[frame[p].idx].url
          /\ (frame[p].pc = "more_content" /\ frame'[p].pc = "more_content")
               => /\ Urls(frame'[p].letters) = Urls(frame[p].letters)
                  /\ frame'[p].idx > frame[p].idx
          /\ (frame[p].pc \in {"more_page", "more_content"}
               /\ frame'[p].pc = "more_content")
               => /\ \A i \in 1..(frame'[p].idx - 1) :
                        letter_exists(store', frame'[p].letters[i].url)
                  /\ ~letter_exists(store', frame'[p].letters[frame'[p].idx].url)]_vars

\* C13 witness: starting at page 1, pages 2 and 3 were requested in this order;
\* the first candidate of page 3 is in the store and the detail of the second
\* one is being fetched.
C13_Witness ==
    /\ hist["h1"].op = "fetch-more"
    /\ hist["h1"].pages = <<2, 3>>
    /\ frame["h1"].pc = "more_content"
    /\ frame["h1"].idx = 2
    /\ letter_exists(store, frame["h1"].letters[1].url)

\* C14: when an invocation aborts with a failure, the letters it inserted
\* before are still in the store: the rows the table held before the failing
\* step are all there after it, unchanged, and they include one row for every
\* letter the invocation had counted.
C14_AbortKeepsInsertedLetters ==
    [][\A p \in Tasks :
          (frame[p].pc # "idle" /\ response'[p].status = 500)
          => /\ Len(store') >= Len(store)
             /\ SubSeq(store', 1, Len(store)) = store
             /\ Len(store) - hist[p].base = Counted(frame[p])
             /\ Len(store') - hist'[p].base >= Counted(frame[p])]_vars

\* C14 witness: an invocation failed on a database error after it had inserted
\* a letter, and the letter is in the store.
C14_Witness ==
    /\ Failed("h1")
    /\ response["h1"].detail = OperationalError
    /\ hist["h1"].cand = 2
    /\ Len(store) = hist["h1"].base + 1
    /\ store[Len(store)].url \in {HrefB, Origin \o HrefA}

\* C15: when the fetch of a listing page fails in transport, the invocation
\* does not fail: it ends at once with a 200 response, requests no further page
\* and inserts nothing; fetch-new returns new_count 0 and fetch-more returns the
\* total accumulated so far.
C15_ListingFailureIsEmptyPage ==
    [][\A p \in Tasks :
          (/\ frame[p].pc \in {"new_page", "more_page"}
           /\ frame'[p] # frame[p]
           /\ ~hist'[p].page_ok)
          => /\ frame'[p].pc = "idle"
             /\ response'[p].status = 200
             /\ response'[p].new_count
                  = (IF frame[p].pc = "new_page" THEN 0 ELSE frame[p].total_added)
             /\ hist'[p].pages = hist[p].pages
             /\ hist'[p].cand = 0
             /\ store' = store]_vars

\* C15 witness: a fetch-more invocation whose second listing fetch failed in
\* transport returned 200 with nothing added.
C15_Witness ==
    /\ hist["h1"].op = "fetch-more"
    /\ hist["h1"].pages = <<2, 3>>
    /\ ~hist["h1"].page_ok
    /\ response["h1"].status = 200
    /\ response["h1"].new_count = 0

\* C16: every invocation that has started eventually finishes, with a 200
\* response or with one 500 response, provided the calls it awaits return.
C16_InvocationTerminates ==
    \A p \in Tasks :
        (frame[p].pc # "idle")
        ~> (frame[p].pc = "idle" /\ response[p].status \in {200, 500})

\* C16 witness: a fetch-more invocation has finished after using up its five
\* attempts on pages whose candidates were all stored.
C16_Witness ==
    /\ hist["h1"].op = "fetch-more"
    /\ frame["h1"].pc = "idle"
    /\ hist["h1"].pages = <<2, 3, 4, 5, 6>>
    /\ hist["h1"].cand > 0
    /\ response["h1"].status = 200
    /\ response["h1"].new_count = 0

\* C17: a detail fetch is issued for a candidate only when the existence check
\* made just before it answered false; the candidates passed over on the way
\* are those for which it answered true, and for them no detail fetch and no
\* insert is issued; the only insert issued is that of the candidate whose
\* detail was fetched.
C17_ExistenceCheckGuardsFetchAndInsert ==
    [][\A p \in Tasks :
          /\ (frame'[p] # frame[p] /\ frame'[p].pc \in {"new_content", "more_content"})
               => /\ ~letter_exists(store', frame'[p].letters[frame'[p].idx].url)
                  /\ \A i \in (IF frame[p].pc \in {"new_content", "more_content"}
                               THEN frame[p].idx + 1 ELSE 1)..(frame'[p].idx - 1) :
                        letter_exists(store', frame'[p].letters[i].url)
          /\ (frame'[p] # frame[p] /\ frame[p].pc \in {"new_content", "more_content"}
               /\ response'[p].status = 200)
               => \A i \in (frame[p].idx + 1)..Len(frame[p].letters) :
                     letter_exists(store', frame[p].letters[i].url)
          /\ (frame'[p] # frame[p] /\ store' # store)
               => /\ frame[p].pc \in {"new_content", "more_content"}
                  /\ Len(store') = Len(store) + 1
                  /\ store'[Len(store')].url = frame[p].letters[frame[p].idx].url]_vars

\* C17 witness: with two requests in flight, one is fetching the detail of the
\* second candidate of its page without having fetched any detail before: the
\* first candidate, stored by the other request, was passed over.
C17_Witness ==
    /\ frame["h2"].pc \in {"new_content", "more_content"}
    /\ frame["h2"].idx = 2
    /\ hist["h2"].detail = None
    /\ letter_exists(store, frame["h2"].letters[1].url)
    /\ ~letter_exists(store, frame["h2"].letters[2].url)
    /\ response["h1"].status = 200

\* C18: with requests served one at a time, the new_count of a 200 response is
\* the number of rows the invocation added: the size of the table when it
\* returns minus its size when the request came in.
C18_NewCountIsRowsAdded ==
    [][\A p \in Tasks :
          (frame[p].pc # "idle" /\ response'[p].status = 200)
          => response'[p].new_count = Len(store') - hist[p].base]_vars

\* C18 witness: a fetch-more request that came in with one letter stored has
\* returned 1 and the store holds two letters.
C18_Witness ==
    /\ hist["h1"].op = "fetch-more"
    /\ hist["h1"].base = 1
    /\ response["h1"].status = 200
    /\ response["h1"].new_count = 1
    /\ Len(store) = 2

\* C19: no step of an invocation removes or changes a row: the rows the table
\* held before the step are there after it with the same title, url,
\* publication_date, summary and content, also when a listing page shows the url
\* of a stored letter with another title or excerpt.
C19_StoredLettersNeverChange ==
    [][/\ Len(store') >= Len(store)
       /\ \A i \in 1..Len(store) :
             /\ store'[i].title = store[i].title
             /\ store'[i].url = store[i].url
             /\ store'[i].publication_date = store[i].publication_date
             /\ store'[i].summary = store[i].summary
             /\ store'[i].content = store[i].content]_vars

\* C19 witness: a page lists, under another title, the url of a letter the
\* other request has stored; the stored letter has the title it was stored
\* with and the handler has moved on to the next candidate.
C19_Witness ==
    /\ frame["h2"].pc = "more_content"
    /\ frame["h2"].idx = 2
    /\ Len(store) = 1
    /\ store[1].url = frame["h2"].letters[1].url
    /\ store[1].title = "Inflation and Wages"
    /\ frame["h2"].letters[1].title = "Wages, Revisited"
    /\ store[1].summary # frame["h2"].letters[1].summary

\* C20: a fetch-more invocation returns the message of the exhausted bound
\* ("Checked 5 pages but all letters already exist ...") exactly when it has
\* requested all 5 pages and none of them yielded a new letter; in particular
\* not when it stopped before the fifth page at a page without candidates.
C20_BoundMessageOnlyAfterFivePages ==
    \A p \in Tasks :
        (hist[p].op = "fetch-more" /\ response[p].status = 200)
        => ((response[p].message = AfterLoopMessage(0))
            <=> (Len(hist[p].pages) = 5 /\ response[p].new_count = 0))

\* C21: in a fetch-more invocation no page before the last one contributes a
\* letter: total_added is 0 whenever a further page is requested, the new_count
\* returned is the number of letters added from the last page visited, and the
\* message "Added N new letter(s)" of the code after the loop is never returned.
C21_OnlyLastPageContributes ==
    [][\A p \in Tasks :
          /\ frame'[p].total_added = 0
          /\ (frame[p].pc \in {"more_page", "more_content"} /\ response'[p].status = 200)
               => /\ response'[p].new_count
                       = (IF frame[p].pc = "more_content"
                          THEN frame[p].added_count + 1 ELSE 0)
                  /\ response'[p].message
                       # "Added " \o ToString(response'[p].new_count) \o " new letter(s)"]_vars

\* C21 witness: a fetch-more invocation whose first page added nothing returned
\* after its second page with the one letter that page added.
C21_Witness ==
    /\ hist["h1"].op = "fetch-more"
    /\ hist["h1"].pages = <<2, 3>>
    /\ response["h1"] = FetchResponse(1, "Added 1 new letter(s) from page 3")
    /\ Len(store) = hist["h1"].base + 1

\* The absolute url a link points to
Resolved(link) ==
    IF ~startswith(link.href, <<"http">>) THEN Origin \o link.href ELSE link.href

\* A link that passes every filter of the listing parser: its target holds the
\* topical marker, is neither a pagination link nor the listing root, and its
\* text can be read and is a valid title.
PassesFilters(link) ==
    /\ link.href # <<>>
    /\ Contains(link.href, <<"economic-letter">>)
    /\ ~Contains(Resolved(link), <<"/", "page", "/">>)
    /\ ~endswith(Resolved(link), <<"/", "economic-letter", "/">>)
    /\ ~endswith(Resolved(link), <<"/", "economic-letter">>)
    /\ ~link.raises
    /\ ValidTitle(link.text)

\* C22: for every url that a link of the document passing all filters points
\* to, parse_letter_list returns exactly one letter with that url, and its title
\* is the text of the first such link in document order, whatever links with a
\* rejected title point to the same url before it.
C22_FirstPassingLinkIsKept ==
    parsed.exc # "NotCalled"
    => \A i \in 1..Len(doc.links) :
          (/\ PassesFilters(doc.links[i])
           /\ \A j \in 1..(i - 1) :
                 ~(PassesFilters(doc.links[j])
                   /\ Resolved(doc.links[j]) = Resolved(doc.links[i])))
          => /\ Cardinality({k \in 1..Len(parsed.ret) :
                               parsed.ret[k].url = Resolved(doc.links[i])}) = 1
             /\ \A k \in 1..Len(parsed.ret) :
                   parsed.ret[k].url = Resolved(doc.links[i])
                   => parsed.ret[k].title = strip(doc.links[i].text)

====
